---- MODULE Spec2Model ----
(***************************************************************************)
(* Model of the dialogue bot of src/main.rs: a per-chat dialogue state     *)
(* kept in a durable store, text messages routed to the handler of the     *)
(* stored state's variant, and button clicks routed to handle_callback.    *)
(* Texts are sequences of one-character strings so that parsing and        *)
(* formatting are computed, not assumed.                                   *)
(***************************************************************************)
EXTENDS Integers, Sequences, FiniteSets, TLC

\* ---------------------------------------------------------------- bounds
MaxEvents == 3
MaxInFlight == 2
MaxFailures == 1

\* ------------------------------------------------------- i32 arithmetic
MaxI32 == 2147483647
MinI32 == -MaxI32 - 1

AddOverflows(a, b) ==
    \/ b > 0 /\ a > MaxI32 - b
    \/ b < 0 /\ a < MinI32 - b

SubOverflows(a, b) ==
    \/ b < 0 /\ a > MaxI32 + b
    \/ b > 0 /\ a < MinI32 + b

\* a + b reduced modulo 2^32 into MinI32..MaxI32, without leaving that range
\* in any intermediate value
WrappingAdd(a, b) ==
    IF b > 0 /\ a > MaxI32 - b THEN MinI32 + ((a - MaxI32) + (b - 1))
    ELSE IF b < 0 /\ a < MinI32 - b THEN MaxI32 + ((a - MinI32) + (b + 1))
    ELSE a + b

WrappingSub(a, b) ==
    IF b < 0 /\ a > MaxI32 + b THEN MinI32 + ((a - MaxI32) - (b + 1))
    ELSE IF b > 0 /\ a < MinI32 + b THEN MaxI32 + ((a - MinI32) - (b - 1))
    ELSE a - b

\* ------------------------------------------------------------- texts
Digits == <<"0", "1", "2", "3", "4", "5", "6", "7", "8", "9">>

IsDigit(c) == \E d \in 1..10 : Digits[d] = c

DigitVal(c) == (CHOOSE d \in 1..10 : Digits[d] = c) - 1

Ok(v) == [ok |-> TRUE, val |-> v]
Err == [ok |-> FALSE, val |-> 0]

\* str::parse::<i32>, positive branch: checked_mul(10) then checked_add(digit)
RECURSIVE ParsePos(_, _, _)
ParsePos(s, i, acc) ==
    IF i > Len(s) THEN Ok(acc)
    ELSE IF ~IsDigit(s[i]) THEN Err
    ELSE IF acc > MaxI32 \div 10 THEN Err
    ELSE IF acc * 10 > MaxI32 - DigitVal(s[i]) THEN Err
    ELSE ParsePos(s, i + 1, acc * 10 + DigitVal(s[i]))

\* str::parse::<i32>, negative branch: checked_mul(10) then checked_sub(digit)
RECURSIVE ParseNeg(_, _, _)
ParseNeg(s, i, acc) ==
    IF i > Len(s) THEN Ok(acc)
    ELSE IF ~IsDigit(s[i]) THEN Err
    ELSE IF acc < -(MaxI32 \div 10) THEN Err
    ELSE IF acc * 10 < MinI32 + DigitVal(s[i]) THEN Err
    ELSE ParseNeg(s, i + 1, acc * 10 - DigitVal(s[i]))

\* a parse that accepts no sign
ParseI32Unsigned(s) == IF Len(s) = 0 THEN Err ELSE ParsePos(s, 1, 0)

\* str::parse::<i32>: optional sign, at least one digit, nothing else
ParseI32(s) ==
    IF Len(s) = 0 THEN Err
    ELSE IF s[1] = "-" THEN (IF Len(s) = 1 THEN Err ELSE ParseNeg(s, 2, 0))
    ELSE IF s[1] = "+" THEN (IF Len(s) = 1 THEN Err ELSE ParsePos(s, 2, 0))
    ELSE ParsePos(s, 1, 0)

\* Display for a non-positive i32 magnitude: the decimal digits of -n
RECURSIVE FmtNeg(_)
FmtNeg(n) ==
    LET r == (10 - (n % 10)) % 10
        q == (n + r) \div 10
    IN  IF q = 0 THEN <<Digits[r + 1]>> ELSE FmtNeg(q) \o <<Digits[r + 1]>>

RECURSIVE FmtPos(_)
FmtPos(n) ==
    IF n < 10 THEN <<Digits[n + 1]>>
    ELSE FmtPos(n \div 10) \o <<Digits[(n % 10) + 1]>>

\* format!("{}", n) for n: i32
FmtI32(n) == IF n < 0 THEN <<"-">> \o FmtNeg(n) ELSE FmtPos(n)

\* ------------------------------------------------------ dialogue state
\* State (src/main.rs enum State); num is 0 in the variants without payload
Start == [tag |-> "Start", num |-> 0]
GotNumber(n) == [tag |-> "GotNumber", num |-> n]
AddNumber(n) == [tag |-> "AddNumber", num |-> n]
SubNumber(n) == [tag |-> "SubNumber", num |-> n]
BattlePlayer == [tag |-> "BattlePlayer", num |-> 0]

\* the store holds no record for the chat
NoEntry == [tag |-> "NoEntry", num |-> 0]

\* a default that is not the first variant
DefaultBattle == BattlePlayer

\* impl Default for State
DefaultState == Start

\* enter_dialogue: the stored state, or State::default() when there is none
GetOrDefault(entry) == IF entry = NoEntry THEN DefaultState ELSE entry

\* --------------------------------------------------------- Command::parse
BotName == <<"b", "o", "t">>

UpperCase == <<"A", "B", "C", "D", "E", "F", "G", "H", "I", "J", "K", "L", "M",
               "N", "O", "P", "Q", "R", "S", "T", "U", "V", "W", "X", "Y", "Z">>
LowerCase == <<"a", "b", "c", "d", "e", "f", "g", "h", "i", "j", "k", "l", "m",
               "n", "o", "p", "q", "r", "s", "t", "u", "v", "w", "x", "y", "z">>

ToAsciiLower(c) ==
    IF \E k \in 1..26 : UpperCase[k] = c
    THEN LowerCase[CHOOSE k \in 1..26 : UpperCase[k] = c]
    ELSE c

EqIgnoreAsciiCase(a, b) ==
    /\ Len(a) = Len(b)
    /\ \A k \in 1..Len(a) : ToAsciiLower(a[k]) = ToAsciiLower(b[k])

\* index of the first occurrence of character c in s at or after from, or 0
FirstIndex(s, c, from) ==
    IF \E k \in from..Len(s) : s[k] = c
    THEN CHOOSE k \in from..Len(s) : s[k] = c /\ \A j \in from..(k - 1) : s[j] # c
    ELSE 0

CmdGet == <<"/", "g", "e", "t">>
CmdReset == <<"/", "r", "e", "s", "e", "t">>
CmdAdd == <<"/", "a", "d", "d">>
CmdSub == <<"/", "s", "u", "b">>
CmdBattle == <<"/", "b", "a", "t", "t", "l", "e">>

ParseError == [ok |-> FALSE, cmd |-> "None", arg |-> <<>>]

\* #[derive(BotCommand)] Command::parse(s, bot_name): the first word up to a
\* space is "<command>[@<bot>]", the rest of the text is the argument string
CommandParse(s, botName) ==
    LET sp == FirstIndex(s, " ", 1)
        word == IF sp = 0 THEN s ELSE SubSeq(s, 1, sp - 1)
        args == IF sp = 0 THEN <<>> ELSE SubSeq(s, sp + 1, Len(s))
        at == FirstIndex(word, "@", 1)
        commandRaw == IF at = 0 THEN word ELSE SubSeq(word, 1, at - 1)
        at2 == IF at = 0 THEN 0 ELSE FirstIndex(word, "@", at + 1)
        hasBot == at # 0
        bot == IF at = 0 THEN <<>>
               ELSE IF at2 = 0 THEN SubSeq(word, at + 1, Len(word))
               ELSE SubSeq(word, at + 1, at2 - 1)
    IN  IF hasBot /\ ~EqIgnoreAsciiCase(bot, botName) THEN ParseError
        ELSE IF commandRaw = CmdGet THEN [ok |-> TRUE, cmd |-> "Get", arg |-> <<>>]
        ELSE IF commandRaw = CmdReset THEN [ok |-> TRUE, cmd |-> "Reset", arg |-> <<>>]
        ELSE IF commandRaw = CmdAdd THEN [ok |-> TRUE, cmd |-> "Add", arg |-> args]
        ELSE IF commandRaw = CmdSub THEN [ok |-> TRUE, cmd |-> "Sub", arg |-> args]
        ELSE IF commandRaw = CmdBattle THEN [ok |-> TRUE, cmd |-> "Battle", arg |-> <<>>]
        ELSE ParseError

\* ----------------------------------------------------------------- replies
\* a sent message: fixed text, a formatted number ({} in format!), fixed text,
\* and the inline keyboard (<<>> when none)
Msg(pre, num, post, markup) ==
    [pre |-> pre, num |-> num, post |-> post, markup |-> markup]

NoReply == [pre |-> "", num |-> <<>>, post |-> "", markup |-> <<>>]

ButtonName == <<"0", "1", "2", "3", "4", "5", "6", "7", "8">>

\* InlineKeyboardButton::callback(text, data)
CallbackButton(text, data) == [text |-> text, data |-> data]

\* slice::chunks(n)
RECURSIVE Chunks(_, _)
Chunks(s, n) ==
    IF Len(s) = 0 THEN <<>>
    ELSE IF Len(s) <= n THEN <<s>>
    ELSE <<SubSeq(s, 1, n)>> \o Chunks(SubSeq(s, n + 1, Len(s)), n)

\* the keyboard with the names laid out column by column
BattleKeyboardByColumn ==
    LET rows == Chunks(ButtonName, 3)
    IN  [r \in 1..Len(rows) |->
            [k \in 1..Len(rows[r]) |-> CallbackButton(rows[k][r], rows[k][r])]]

\* the keyboard built by the /battle arm
BattleKeyboard ==
    LET rows == Chunks(ButtonName, 3)
    IN  [r \in 1..Len(rows) |->
            [k \in 1..Len(rows[r]) |-> CallbackButton(rows[r][k], rows[r][k])]]

\* ---------------------------------------------------------------- handlers
\* what a handler does with one message: the store operation it awaits first
\* (op "none" when it has none), the state it passes to update, and the reply
\* it sends afterwards; kind "Error" is a `?` that returns Err before any
\* await, kind "Panic" is a panic before any await
Plan(kind, op, st, reply) == [kind |-> kind, op |-> op, st |-> st, reply |-> reply]

ReplyOnly(reply) == Plan("Run", "none", NoEntry, reply)
UpdateThenReply(st, reply) == Plan("Run", "update", st, reply)
ResetThenReply(reply) == Plan("Run", "reset", NoEntry, reply)
HardError == Plan("Error", "none", NoEntry, NoReply)
Panic == Plan("Panic", "none", NoEntry, NoReply)

\* handle_start with a non-numeric arm that also writes the state
HandleStartRewrites(text) ==
    LET parsed == ParseI32(text)
    IN  IF parsed.ok
        THEN UpdateThenReply(GotNumber(parsed.val),
                 Msg("Remembered number ", FmtI32(parsed.val),
                     ". Now use /get or /reset", <<>>))
        ELSE UpdateThenReply(Start, Msg("Please, send me a number", <<>>, "", <<>>))

\* handle_start
HandleStart(text) ==
    LET parsed == ParseI32(text)
    IN  IF parsed.ok
        THEN UpdateThenReply(GotNumber(parsed.val),
                 Msg("Remembered number ", FmtI32(parsed.val),
                     ". Now use /get or /reset", <<>>))
        ELSE ReplyOnly(Msg("Please, send me a number", <<>>, "", <<>>))

\* a Command::Get arm that stores the number it reports
GetArmStores(num) ==
    UpdateThenReply(GotNumber(num), Msg("Here is your number: ", FmtI32(num), "", <<>>))

\* handle_got_number, Command::Get
GetArm(num) == ReplyOnly(Msg("Here is your number: ", FmtI32(num), "", <<>>))

\* handle_got_number, Command::Reset
ResetArm == ResetThenReply(Msg("Number resetted", <<>>, "", <<>>))

\* a Command::Add arm that answers a bad argument with the fallback text
AddArmFallback(num, numberStr, checks) ==
    LET number == ParseI32(numberStr)
    IN  IF ~number.ok
        THEN ReplyOnly(Msg("Please, send /get or /reset", <<>>, "", <<>>))
        ELSE IF checks /\ AddOverflows(num, number.val) THEN Panic
        ELSE UpdateThenReply(AddNumber(WrappingAdd(num, number.val)),
                 Msg("Number added, now ", FmtI32(WrappingAdd(num, number.val)),
                     "", <<>>))

\* handle_got_number, Command::Add; checks is TRUE in a build with overflow
\* checks, where num+number panics instead of wrapping
AddArm(num, numberStr, checks) ==
    LET number == ParseI32(numberStr)
    IN  IF ~number.ok THEN HardError
        ELSE IF checks /\ AddOverflows(num, number.val) THEN Panic
        ELSE UpdateThenReply(AddNumber(WrappingAdd(num, number.val)),
                 Msg("Number added, now ", FmtI32(WrappingAdd(num, number.val)),
                     "", <<>>))

\* a Command::Sub arm that adds its argument
SubArmAdds(num, numberStr, checks) ==
    LET number == ParseI32(numberStr)
    IN  IF ~number.ok THEN HardError
        ELSE IF checks /\ AddOverflows(num, number.val) THEN Panic
        ELSE UpdateThenReply(SubNumber(WrappingAdd(num, number.val)),
                 Msg("Number subed, now ", FmtI32(WrappingAdd(num, number.val)),
                     "", <<>>))

\* handle_got_number, Command::Sub; num-number panics or wraps as in AddArm
SubArm(num, numberStr, checks) ==
    LET number == ParseI32(numberStr)
    IN  IF ~number.ok THEN HardError
        ELSE IF checks /\ SubOverflows(num, number.val) THEN Panic
        ELSE UpdateThenReply(SubNumber(WrappingSub(num, number.val)),
                 Msg("Number subed, now ", FmtI32(WrappingSub(num, number.val)),
                     "", <<>>))

\* a Command::Battle arm that moves the dialogue to BattlePlayer
BattleArmEnters ==
    UpdateThenReply(BattlePlayer, Msg("Let's battle!", <<>>, "", BattleKeyboard))

\* handle_got_number, Command::Battle
BattleArm == ReplyOnly(Msg("Let's battle!", <<>>, "", BattleKeyboard))

\* handle_got_number
HandleGotNumber(num, text, checks) ==
    LET parsed == CommandParse(text, BotName)
    IN  IF ~parsed.ok
        THEN ReplyOnly(Msg("Please, send /get or /reset", <<>>, "", <<>>))
        ELSE IF parsed.cmd = "Get" THEN GetArm(num)
        ELSE IF parsed.cmd = "Reset" THEN ResetArm
        ELSE IF parsed.cmd = "Add" THEN AddArm(num, parsed.arg, checks)
        ELSE IF parsed.cmd = "Sub" THEN SubArm(num, parsed.arg, checks)
        ELSE BattleArm

\* a dispatch with SubNumber's #[handler] naming handle_start
DispatchBySubToStart(state, text, checks) ==
    IF state.tag \in {"Start", "SubNumber"} THEN HandleStart(text)
    ELSE IF state.tag \in {"GotNumber", "AddNumber"}
    THEN HandleGotNumber(state.num, text, checks)
    ELSE Panic

\* dispatch_by::<State>: the handler named by the variant's #[handler];
\* BattlePlayer carries no i32 for handle_got_number's num parameter
DispatchBy(state, text, checks) ==
    IF state.tag = "Start" THEN HandleStart(text)
    ELSE IF state.tag \in {"GotNumber", "AddNumber", "SubNumber"}
    THEN HandleGotNumber(state.num, text, checks)
    ELSE Panic

\* ------------------------------------------------------------------ inputs
Chats == {1, 2}

TNum5 == <<"5">>
TNumMax == <<"2", "1", "4", "7", "4", "8", "3", "6", "4", "7">>
TNumMin == <<"-", "2", "1", "4", "7", "4", "8", "3", "6", "4", "8">>
TNumTooBig == <<"2", "1", "4", "7", "4", "8", "3", "6", "4", "8">>
THello == <<"h", "e", "l", "l", "o">>
TFoo == <<"/", "f", "o", "o">>
TGetAtBot == CmdGet \o <<"@", "B", "o", "t">>
TGetAtOther == CmdGet \o <<"@", "b", "o", "b">>
TAdd3 == CmdAdd \o <<" ", "3">>
TSub10 == CmdSub \o <<" ", "1", "0">>
TAddX == CmdAdd \o <<" ", "x">>
TSubTooBig == CmdSub \o <<" ">> \o TNumTooBig

Texts ==
    { TNum5, TNumMax, TNumMin, TNumTooBig, THello, TFoo, TGetAtBot, TGetAtOther,
      CmdGet, CmdReset, CmdBattle, CmdAdd, TAdd3, TSub10, TAddX, TSubTooBig }

\* the texts sent to each chat: every text to chat 1, a few to chat 2
TextsOf(c) == IF c = 1 THEN Texts ELSE {TNum5, TAdd3, CmdReset}

NoName == ""
Users == { [first |-> "Ann", last |-> "Lee"], [first |-> "Bob", last |-> NoName] }

\* a display name that leaves out the last name
FullNameFirstOnly(u) == u.first

\* User::full_name
FullName(u) == IF u.last = NoName THEN u.first ELSE u.first \o " " \o u.last

NoData == [some |-> FALSE, label |-> ""]
SomeData(l) == [some |-> TRUE, label |-> l]
Datas == {NoData, SomeData("4")}

NoMessage == [some |-> FALSE, id |-> 0, chat |-> 0]
SomeMessage(id, chat) == [some |-> TRUE, id |-> id, chat |-> chat]
Messages == {NoMessage, SomeMessage(7, 1)}

\* ------------------------------------------------------------------- state
VARIABLES
    store,          \* the dialogue storage: chat id -> stored State or NoEntry
    run,            \* the message events being handled, in order of arrival
    last,           \* per chat, the message event whose handling ended last
    clicks,         \* the callback queries being handled, in order of arrival
    lastClick,      \* the callback query whose handling ended last
    events,         \* events received so far
    failures,       \* storage and transport calls that have failed so far
    overflowChecks, \* whether the build panics on integer overflow
    serial,         \* per chat: no two of its events were ever handled at once
    clean,          \* per chat: no storage or transport call of its events failed
    seq,            \* per chat: its events applied one after another, in order
    total           \* per chat: the accepted number and the added and
                    \* subtracted arguments since, summed

vars == <<store, run, last, clicks, lastClick, events, failures, overflowChecks,
          serial, clean, seq, total>>

NoTask ==
    [chat |-> 0, text |-> <<>>, loaded |-> FALSE, found |-> FALSE,
     snap |-> NoEntry, pc |-> "none",
     op |-> "none", st |-> NoEntry, sent |-> NoReply, result |-> "None",
     fail |-> "none", prev |-> "none"]

NoQuery ==
    [from |-> [first |-> "", last |-> NoName], data |-> NoData,
     message |-> NoMessage, pc |-> "none", acks |-> 0, edits |-> <<>>,
     logs |-> <<>>, result |-> "None"]

NoTotal == [def |-> FALSE, wraps |-> 0, val |-> 0]

InFlight == Len(run) + Len(clicks)

CanReceive == events < MaxEvents /\ InFlight < MaxInFlight

CanFail == failures < MaxFailures

\* no event of chat c is being handled
Idle(c) == \A i \in 1..Len(run) : run[i].chat # c

Remove(s, i) == SubSeq(s, 1, i - 1) \o SubSeq(s, i + 1, Len(s))

Init ==
    /\ store = [c \in Chats |-> NoEntry]
    /\ run = <<>>
    /\ last = [c \in Chats |-> NoTask]
    /\ clicks = <<>>
    /\ lastClick = NoQuery
    /\ events = 0
    /\ failures = 0
    /\ overflowChecks \in BOOLEAN
    /\ serial = [c \in Chats |-> TRUE]
    /\ clean = [c \in Chats |-> TRUE]
    /\ seq = [c \in Chats |-> NoEntry]
    /\ total = [c \in Chats |-> NoTotal]

\* a reset that writes Start over the entry instead of removing it
StoreApplyKeepsRecord(entry, plan) ==
    IF plan.op = "update" THEN [ok |-> TRUE, entry |-> plan.st]
    ELSE IF entry = NoEntry THEN [ok |-> FALSE, entry |-> entry]
    ELSE [ok |-> TRUE, entry |-> Start]

\* Dialogue::update and Dialogue::reset on the chat's entry; removing an entry
\* that does not exist is a storage error
StoreApply(entry, plan) ==
    IF plan.op = "update" THEN [ok |-> TRUE, entry |-> plan.st]
    ELSE IF entry = NoEntry THEN [ok |-> FALSE, entry |-> entry]
    ELSE [ok |-> TRUE, entry |-> NoEntry]

\* the chat's entry after one event is handled from it with nothing else
\* running and no call failing
SeqNext(entry, text, checks) ==
    LET plan == DispatchBy(GetOrDefault(entry), text, checks)
    IN  IF plan.kind = "Run" /\ plan.op # "none" /\ StoreApply(entry, plan).ok
        THEN StoreApply(entry, plan).entry
        ELSE entry

\* the number the chat's commands describe after a store write for text:
\* the number accepted in Start, plus the /add and minus the /sub arguments
\* since; the sum is wraps * 2^32 + val with val in the i32 range
TotalNext(tot, op, text) ==
    LET n0 == ParseI32(text)
        cmd == CommandParse(text, BotName)
        k == ParseI32(cmd.arg).val
    IN  IF op = "reset" THEN NoTotal
        ELSE IF n0.ok THEN [def |-> TRUE, wraps |-> 0, val |-> n0.val]
        ELSE IF cmd.cmd = "Add"
        THEN [def |-> tot.def,
              wraps |-> IF ~AddOverflows(tot.val, k) THEN tot.wraps
                        ELSE IF k > 0 THEN tot.wraps + 1 ELSE tot.wraps - 1,
              val |-> WrappingAdd(tot.val, k)]
        ELSE [def |-> tot.def,
              wraps |-> IF ~SubOverflows(tot.val, k) THEN tot.wraps
                        ELSE IF k > 0 THEN tot.wraps - 1 ELSE tot.wraps + 1,
              val |-> WrappingSub(tot.val, k)]

\* the handling of run[i] ends
Finish(i, op, st, sent, result) ==
    /\ last' = [last EXCEPT ![run[i].chat] =
                    [run[i] EXCEPT !.pc = "done", !.op = op, !.st = st,
                                   !.sent = sent, !.result = result]]
    /\ run' = Remove(run, i)

\* the handling of run[i] ends with the error of the call named by fail
FinishErr(i, op, st, fail) ==
    /\ last' = [last EXCEPT ![run[i].chat] =
                    [run[i] EXCEPT !.pc = "done", !.op = op, !.st = st,
                                   !.sent = NoReply, !.result = "Err",
                                   !.fail = fail]]
    /\ run' = Remove(run, i)

Failed(c) ==
    /\ CanFail
    /\ failures' = failures + 1
    /\ clean' = [clean EXCEPT ![c] = FALSE]

\* a message arrives: filter_message, then enter_dialogue reads the chat's
\* state from the storage (or fails to), then dispatch_by picks the handler
Receive(c, t) ==
    /\ CanReceive
    /\ events' = events + 1
    /\ serial' = [serial EXCEPT ![c] = serial[c] /\ Idle(c)]
    /\ seq' = [seq EXCEPT ![c] = SeqNext(seq[c], t, overflowChecks)]
    /\ LET task == [chat |-> c, text |-> t, loaded |-> TRUE,
                    found |-> store[c] # NoEntry,
                    snap |-> GetOrDefault(store[c]), pc |-> "handler",
                    op |-> "none", st |-> NoEntry, sent |-> NoReply,
                    result |-> "Pending", fail |-> "none",
                    prev |-> IF Idle(c) THEN last[c].op ELSE "none"]
       IN  \/ /\ run' = Append(run, task)
              /\ UNCHANGED <<last, failures, clean>>
           \/ /\ Failed(c)
              /\ last' = [last EXCEPT ![c] =
                    [task EXCEPT !.loaded = FALSE, !.found = FALSE,
                                 !.snap = NoEntry,
                                 !.pc = "done", !.result = "Err",
                                 !.fail = "load"]]
              /\ UNCHANGED run
    /\ UNCHANGED <<store, clicks, lastClick, overflowChecks, total>>

\* a handler that reads the chat's state again when it runs
HandlerInputFresh(i) == GetOrDefault(store[run[i].chat])

\* the state the handler of run[i] is called with: the one read at dispatch
HandlerInput(i) == run[i].snap

\* a store keyed by nothing: the write lands in every chat's entry
WriteEntryAll(st, c, entry) == [b \in Chats |-> entry]

\* the storage after the write of entry under chat c's key
WriteEntry(st, c, entry) == [st EXCEPT ![c] = entry]

\* a failed write that is swallowed: the reply is sent all the same
WriteFailsSilently(i, plan) ==
    /\ Failed(run[i].chat)
    /\ last' = [last EXCEPT ![run[i].chat] =
                    [run[i] EXCEPT !.pc = "done", !.sent = plan.reply,
                                   !.result = "Ok", !.fail = "store"]]
    /\ run' = Remove(run, i)
    /\ UNCHANGED <<store, total>>

\* dialogue.update(..).await? or dialogue.reset().await? returns Err: the
\* handler ends there
WriteFails(i, plan) ==
    /\ Failed(run[i].chat)
    /\ FinishErr(i, "none", NoEntry, "store")
    /\ UNCHANGED <<store, total>>

\* the handler runs up to and including its first awaited call: the store
\* write of a state-changing arm, or the send_message of the other arms
RunHandler(i) ==
    /\ run[i].pc = "handler"
    /\ LET c == run[i].chat
           plan == DispatchBy(HandlerInput(i), run[i].text, overflowChecks)
           applied == StoreApply(store[c], plan)
       IN  IF plan.kind # "Run"
           THEN /\ Finish(i, "none", NoEntry, NoReply,
                          IF plan.kind = "Panic" THEN "Panic" ELSE "Err")
                /\ UNCHANGED <<store, failures, clean, total>>
           ELSE IF plan.op = "none"
           THEN \/ /\ Finish(i, "none", NoEntry, plan.reply, "Ok")
                   /\ UNCHANGED <<store, failures, clean, total>>
                \/ /\ Failed(c)
                   /\ FinishErr(i, "none", NoEntry, "send")
                   /\ UNCHANGED <<store, total>>
           ELSE \/ /\ applied.ok
                   /\ store' = WriteEntry(store, c, applied.entry)
                   /\ total' = [total EXCEPT ![c] =
                                    TotalNext(total[c], plan.op, run[i].text)]
                   /\ run' = [run EXCEPT ![i].pc = "reply", ![i].op = plan.op,
                                         ![i].st = applied.entry]
                   /\ UNCHANGED <<last, failures, clean>>
                \/ /\ ~applied.ok
                   /\ FinishErr(i, "none", NoEntry, "store")
                   /\ UNCHANGED <<store, failures, clean, total>>
                \/ WriteFails(i, plan)
    /\ UNCHANGED <<clicks, lastClick, events, overflowChecks, serial, seq>>

\* a failed send that takes the store write back
SendFailsRollsBack(i) ==
    /\ Failed(run[i].chat)
    /\ FinishErr(i, run[i].op, run[i].st, "send")
    /\ store' = [store EXCEPT ![run[i].chat] =
                    IF run[i].snap = Start THEN NoEntry ELSE run[i].snap]

\* send_message(..).await? returns Err after the store write: the handler
\* ends there, the write stays
SendFails(i) ==
    /\ Failed(run[i].chat)
    /\ FinishErr(i, run[i].op, run[i].st, "send")
    /\ UNCHANGED store

\* the send_message that follows the store write of a state-changing arm
SendReply(i) ==
    /\ run[i].pc = "reply"
    /\ LET plan == DispatchBy(run[i].snap, run[i].text, overflowChecks)
       IN  \/ /\ Finish(i, run[i].op, run[i].st, plan.reply, "Ok")
              /\ UNCHANGED <<store, failures, clean>>
           \/ SendFails(i)
    /\ UNCHANGED <<clicks, lastClick, events, overflowChecks, serial, seq, total>>

\* ---------------------------------------------------------- handle_callback
\* format!("{} click {}", from.full_name(), q_data)
ClickText(from, label) == [name |-> FullName(from), mid |-> " click ", label |-> label]

\* the handling of clicks[i] ends
FinishClick(i, q) ==
    /\ lastClick' = [q EXCEPT !.pc = "done"]
    /\ clicks' = Remove(clicks, i)

\* a callback query arrives: filter_callback_query routes it to handle_callback
Click(u, d, m) ==
    /\ CanReceive
    /\ events' = events + 1
    /\ clicks' = Append(clicks,
            [from |-> u, data |-> d, message |-> m, pc |-> "answer",
             acks |-> 0, edits |-> <<>>, logs |-> <<>>, result |-> "Pending"])
    /\ UNCHANGED <<store, run, last, lastClick, failures, overflowChecks, serial,
                   clean, seq, total>>

\* a handler that looks at the message before the payload
AfterAnswerIgnoresPayload(i, acked) ==
    IF ~acked.message.some
    THEN FinishClick(i, [acked EXCEPT !.result = "Ok",
                             !.logs = Append(acked.logs, acked.data.label)])
    ELSE /\ clicks' = [clicks EXCEPT ![i] = [acked EXCEPT !.pc = "edit"]]
         /\ UNCHANGED lastClick

\* a handler that answers a query only if the one before it was different
AfterAnswerOnce(i, acked) ==
    IF ~acked.data.some
       \/ (lastClick.from = acked.from /\ lastClick.data = acked.data
              /\ lastClick.message = acked.message)
    THEN FinishClick(i, [acked EXCEPT !.result = "Ok"])
    ELSE IF ~acked.message.some
    THEN FinishClick(i, [acked EXCEPT !.result = "Ok",
                             !.logs = Append(acked.logs, acked.data.label)])
    ELSE /\ clicks' = [clicks EXCEPT ![i] = [acked EXCEPT !.pc = "edit"]]
         /\ UNCHANGED lastClick

\* handle_callback once answer_callback_query has returned Ok: nothing more
\* without q.data, a log line without q.message, else the edit
AfterAnswer(i, acked) ==
    IF ~acked.data.some
    THEN FinishClick(i, [acked EXCEPT !.result = "Ok"])
    ELSE IF ~acked.message.some
    THEN FinishClick(i, [acked EXCEPT !.result = "Ok",
                             !.logs = Append(acked.logs, acked.data.label)])
    ELSE /\ clicks' = [clicks EXCEPT ![i] = [acked EXCEPT !.pc = "edit"]]
         /\ UNCHANGED lastClick

\* answer_callback_query and what follows it without another awaited call
AnswerCallback(i) ==
    /\ clicks[i].pc = "answer"
    /\ LET q == clicks[i]
           acked == [q EXCEPT !.acks = q.acks + 1]
       IN  \/ /\ AfterAnswer(i, acked)
              /\ UNCHANGED failures
           \/ /\ CanFail
              /\ failures' = failures + 1
              /\ FinishClick(i, [q EXCEPT !.result = "Err"])
    /\ UNCHANGED <<store, run, last, events, overflowChecks, serial, clean, seq,
                   total>>

\* edit_message_text on the message the keyboard was attached to
EditMessage(i) ==
    /\ clicks[i].pc = "edit"
    /\ LET q == clicks[i]
       IN  \/ /\ FinishClick(i, [q EXCEPT !.result = "Ok",
                        !.edits = Append(q.edits,
                            [chat |-> q.message.chat, id |-> q.message.id,
                             text |-> ClickText(q.from, q.data.label)])])
              /\ UNCHANGED failures
           \/ /\ CanFail
              /\ failures' = failures + 1
              /\ FinishClick(i, [q EXCEPT !.result = "Err"])
    /\ UNCHANGED <<store, run, last, events, overflowChecks, serial, clean, seq,
                   total>>

Next ==
    \/ \E c \in Chats : \E t \in TextsOf(c) : Receive(c, t)
    \/ \E i \in 1..Len(run) : RunHandler(i)
    \/ \E i \in 1..Len(run) : SendReply(i)
    \/ \E u \in Users : \E d \in Datas : \E m \in Messages : Click(u, d, m)
    \/ \E i \in 1..Len(clicks) : AnswerCallback(i)
    \/ \E i \in 1..Len(clicks) : EditMessage(i)

Spec == Init /\ [][Next]_vars

\* ------------------------------------------------------------- properties
PayloadTags == {"GotNumber", "AddNumber", "SubNumber"}

\* the chat's last handled message was dispatched on a state with a number
HandledWithNumber(c) == last[c].loaded /\ last[c].snap.tag \in PayloadTags

\* the chat's last handled message was dispatched on Start
HandledInStart(c) == last[c].loaded /\ last[c].snap = Start

PleaseNumber == Msg("Please, send me a number", <<>>, "", <<>>)
Fallback == Msg("Please, send /get or /reset", <<>>, "", <<>>)
HereIs(n) == Msg("Here is your number: ", FmtI32(n), "", <<>>)

GetTexts == {CmdGet, TGetAtBot}
SampleInts == {5, MaxI32, MinI32}
NonNumbers == Texts \ {TNum5, TNumMax, TNumMin}

FailsToParse(text) ==
    LET cmd == CommandParse(text, BotName)
    IN  \/ ~cmd.ok
        \/ cmd.cmd \in {"Add", "Sub"} /\ ~ParseI32(cmd.arg).ok

\* C3: a text that fails to parse, handled in a state with a number, is
\* recovered locally: no store write, and the reply "Please, send /get or
\* /reset" is sent.
C3_ParseErrorsRecovered ==
    \A c \in Chats :
        HandledWithNumber(c) /\ clean[c] /\ FailsToParse(last[c].text) =>
            /\ last[c].result = "Ok"
            /\ last[c].op = "none"
            /\ last[c].sent = Fallback

\* C4: /add K on value N persists Adding(N+K) and replies N+K, /sub K
\* persists Subtracting(N-K) and replies N-K, the result wrapped into the
\* i32 range for every N and K.
C4_WrappingArithmetic ==
    \A c \in Chats :
        HandledWithNumber(c) /\ clean[c] =>
            LET cmd == CommandParse(last[c].text, BotName)
                k == ParseI32(cmd.arg)
                n == last[c].snap.num
            IN  /\ cmd.ok /\ cmd.cmd = "Add" /\ k.ok =>
                    /\ last[c].result = "Ok"
                    /\ last[c].op = "update"
                    /\ last[c].st = AddNumber(WrappingAdd(n, k.val))
                    /\ last[c].sent =
                          Msg("Number added, now ", FmtI32(WrappingAdd(n, k.val)),
                              "", <<>>)
                /\ cmd.ok /\ cmd.cmd = "Sub" /\ k.ok =>
                    /\ last[c].result = "Ok"
                    /\ last[c].op = "update"
                    /\ last[c].st = SubNumber(WrappingSub(n, k.val))
                    /\ last[c].sent =
                          Msg("Number subed, now ", FmtI32(WrappingSub(n, k.val)),
                              "", <<>>)

\* what /get answers when the commands so far describe the number tot
GetAnswer(tot) == IF tot.def THEN HereIs(tot.val) ELSE PleaseNumber

\* C5 as amended: in a conversation handled one event at a time, the stored
\* value and the value the next /get reports are N0 plus the added minus the
\* subtracted arguments, reduced modulo 2^32 into the i32 range; after a
\* /reset, /get is answered as in a fresh Start conversation.
C5_WrappedSum ==
    \A c \in Chats : serial[c] =>
        /\ total[c].def <=> store[c] # NoEntry
        /\ total[c].def =>
              store[c].tag \in PayloadTags /\ store[c].num = total[c].val
        /\ Idle(c) /\ last[c].loaded /\ last[c].text \in GetTexts
              /\ last[c].result = "Ok" => last[c].sent = GetAnswer(total[c])

\* C5 as stated: the stored value is N0 plus the added minus the subtracted
\* arguments as integers, so the sum never differs from it by a multiple of
\* 2^32.
C5_ExactSum ==
    \A c \in Chats : serial[c] /\ total[c].def =>
        /\ total[c].wraps = 0
        /\ store[c].num = total[c].val

C5_Witness ==
    \E c \in Chats :
        /\ serial[c] /\ Idle(c) /\ total[c].def
        /\ last[c].text = TSub10 /\ last[c].result = "Ok"
        /\ last[c].snap.tag = "AddNumber"

\* C6: /get on a state with number N replies exactly N and writes nothing:
\* the stored state, variant included, is the one before the event.
C6_GetReadsOnly ==
    \A c \in Chats :
        HandledWithNumber(c) /\ last[c].text \in GetTexts =>
            /\ last[c].op = "none"
            /\ last[c].result = "Ok" =>
                  /\ last[c].sent = HereIs(last[c].snap.num)
                  /\ ParseI32(last[c].sent.num) = Ok(last[c].snap.num)
            /\ serial[c] /\ Idle(c) => store[c] = last[c].snap

C6_Witness ==
    \E c \in Chats :
        /\ HandledWithNumber(c) /\ last[c].text = CmdGet
        /\ last[c].snap.tag = "AddNumber" /\ last[c].result = "Ok"
        /\ serial[c] /\ Idle(c)

\* C7: the decimal text of an i32 N, handled in Start, persists
\* GotNumber(N) and is answered with a reply that contains N.
C7_NumberRemembered ==
    \A c \in Chats : \A n \in SampleInts :
        HandledInStart(c) /\ last[c].text = FmtI32(n) /\ clean[c] =>
            /\ last[c].result = "Ok"
            /\ last[c].op = "update"
            /\ last[c].st = GotNumber(n)
            /\ last[c].sent =
                  Msg("Remembered number ", FmtI32(n), ". Now use /get or /reset", <<>>)
            /\ serial[c] /\ Idle(c) => store[c] = GotNumber(n)

C7_Witness ==
    \E c \in Chats :
        /\ HandledInStart(c) /\ last[c].text = TNumMin /\ last[c].result = "Ok"
        /\ store[c] = GotNumber(MinI32)

\* C8: a text that is not an i32, handled in Start, writes nothing, leaves
\* the conversation in Start and is answered "Please, send me a number",
\* however often it is repeated.
C8_NonNumberIgnored ==
    \A c \in Chats :
        HandledInStart(c) /\ last[c].text \in NonNumbers =>
            /\ last[c].op = "none"
            /\ clean[c] => last[c].result = "Ok" /\ last[c].sent = PleaseNumber
            /\ serial[c] /\ Idle(c) => store[c] = NoEntry

\* three texts in a row to chat 1, none of them a number
C8_Witness ==
    /\ events = MaxEvents /\ failures = 0 /\ InFlight = 0
    /\ last[2] = NoTask /\ lastClick = NoQuery
    /\ HandledInStart(1) /\ last[1].text = TNumTooBig /\ last[1].prev = "none"
    /\ last[1].result = "Ok" /\ store[1] = NoEntry

\* the edit a click by from on label shows
ExpectedEdit(q) ==
    [chat |-> q.message.chat, id |-> q.message.id,
     text |-> [name |-> IF q.from.first = "Ann" THEN "Ann Lee" ELSE "Bob",
               mid |-> " click ", label |-> q.data.label]]

\* C9 as stated: a handled click is acknowledged once; with a resolvable
\* message it gives one edit showing the clicker's name and the label,
\* without one it gives no edit.
C9_AckAndEdit ==
    lastClick.result = "Ok" =>
        /\ lastClick.acks = 1
        /\ lastClick.message.some => lastClick.edits = <<ExpectedEdit(lastClick)>>
        /\ ~lastClick.message.some => lastClick.edits = <<>>

\* C9 as amended: a handled click is acknowledged once; with a resolvable
\* message and a payload it gives one edit showing the clicker's name and
\* the label; without a resolvable message, or without a payload, no edit.
C9_AckAndEditWithPayload ==
    /\ \A i \in 1..Len(clicks) : clicks[i].acks <= 1
    /\ lastClick.acks <= 1
    /\ lastClick.result = "Ok" =>
        /\ lastClick.acks = 1
        /\ lastClick.message.some /\ lastClick.data.some =>
              lastClick.edits = <<ExpectedEdit(lastClick)>>
        /\ ~(lastClick.message.some /\ lastClick.data.some) => lastClick.edits = <<>>

C9_Witness ==
    /\ lastClick.result = "Ok" /\ lastClick.message.some /\ lastClick.data.some
    /\ lastClick.from.last # NoName /\ Len(lastClick.edits) = 1

\* C10: /battle on a state with a number writes nothing and sends "Let's
\* battle!" with 3 rows of 3 buttons whose labels and payloads are "0".."8"
\* row by row.
C10_BattleKeyboard ==
    \A c \in Chats :
        HandledWithNumber(c) /\ last[c].text = CmdBattle =>
            /\ last[c].op = "none"
            /\ serial[c] /\ Idle(c) => store[c] = last[c].snap
            /\ last[c].result = "Ok" =>
                  /\ last[c].sent.pre = "Let's battle!"
                  /\ last[c].sent.num = <<>> /\ last[c].sent.post = ""
                  /\ Len(last[c].sent.markup) = 3
                  /\ \A r \in 1..3 :
                        /\ Len(last[c].sent.markup[r]) = 3
                        /\ \A k \in 1..3 :
                              last[c].sent.markup[r][k] =
                                  [text |-> Digits[3 * (r - 1) + k],
                                   data |-> Digits[3 * (r - 1) + k]]

C10_Witness ==
    \E c \in Chats :
        /\ HandledWithNumber(c) /\ last[c].text = CmdBattle /\ last[c].result = "Ok"
        /\ serial[c] /\ Idle(c) /\ store[c].tag = "GotNumber"

StateTags == {"Start", "GotNumber", "AddNumber", "SubNumber", "BattlePlayer"}

\* what handling text from the stored record entry gives when no call
\* fails: the reply, the store operation and the record afterwards
Outcome(entry, text, checks) ==
    LET plan == DispatchBy(entry, text, checks)
        applied == StoreApply(entry, plan)
    IN  [sent |-> IF plan.kind = "Run" THEN plan.reply ELSE NoReply,
         op |-> plan.op,
         after |-> IF plan.kind = "Run" /\ plan.op # "none" /\ applied.ok
                   THEN applied.entry ELSE entry]

\* C11: every chat has exactly one dialogue state at any time, and a chat
\* without a record is handled as one whose record is Start: the reply and
\* the state afterwards of a message found without a record are those of
\* the same message handled from a stored Start.
C11_AbsentIsStart ==
    \A c \in Chats :
        /\ GetOrDefault(store[c]).tag \in StateTags
        /\ \A i \in 1..Len(run) :
              run[i].chat = c /\ ~run[i].found => run[i].snap = Start
        /\ last[c].loaded /\ ~last[c].found /\ last[c].fail = "none" =>
              LET o == Outcome(Start, last[c].text, overflowChecks)
              IN  /\ last[c].sent = o.sent
                  /\ last[c].op = o.op
                  /\ last[c].op = "update" => last[c].st = o.after
                  /\ serial[c] /\ Idle(c) =>
                        GetOrDefault(store[c]) = GetOrDefault(o.after)

\* a message and then a command, each found without a record
C11_Witness ==
    \E c \in Chats :
        /\ serial[c] /\ Idle(c) /\ clean[c]
        /\ last[c].loaded /\ ~last[c].found /\ last[c].text = CmdReset
        /\ last[c].prev = "none" /\ last[c].result = "Ok" /\ events >= 2

\* C12: a store write that fails ends the handler with the error: no reply
\* is sent for the event, the chat's stored state is the one before the
\* event, and the step changes no entry of the store, any other chat's
\* included.
C12_WriteFailurePropagated ==
    /\ [](\A c \in Chats : last[c].fail = "store" =>
              /\ last[c].result = "Err"
              /\ last[c].sent = NoReply
              /\ last[c].op = "none"
              /\ serial[c] /\ Idle(c) => GetOrDefault(store[c]) = last[c].snap)
    /\ [][\A c \in Chats :
              last'[c] # last[c] /\ last'[c].fail = "store" => store' = store]_vars

\* /reset fails at the store while the other chat holds a number
C12_Witness ==
    /\ last[1].fail = "store" /\ last[1].text = CmdReset /\ Idle(1) /\ serial[1]
    /\ store[1] = GotNumber(5) /\ store[2] = GotNumber(5)

BadArguments == {TAddX, TSubTooBig, CmdAdd}

\* C13: /add or /sub whose argument is not an i32, handled in a state with
\* a number, ends the handler with an error before any call: no store
\* write and no reply of any kind, the fallback text included.
C13_BadArgumentHardError ==
    \A c \in Chats :
        HandledWithNumber(c) /\ last[c].text \in BadArguments =>
            /\ last[c].result = "Err"
            /\ last[c].fail = "none"
            /\ last[c].op = "none"
            /\ last[c].sent = NoReply
            /\ serial[c] /\ Idle(c) => store[c] = last[c].snap

C13_Witness ==
    \E c \in Chats :
        /\ HandledWithNumber(c) /\ last[c].text = TAddX /\ last[c].result = "Err"
        /\ serial[c] /\ Idle(c) /\ clean[c] /\ store[c].tag = "SubNumber"

ChangeReplies ==
    {"Remembered number ", "Number resetted", "Number added, now ",
     "Number subed, now "}

\* C14: in a state-changing transition the store write is complete before
\* the reply is sent: between the two the store holds the new state and
\* nothing is sent; a reply that fails after the write leaves the chat in
\* the new state with no reply; a reply of a state change is never sent
\* without the change having been written.
C14_WriteBeforeReply ==
    \A c \in Chats :
        /\ \A i \in 1..Len(run) : run[i].chat = c =>
              /\ run[i].sent = NoReply
              /\ run[i].pc = "handler" => run[i].op = "none"
              /\ run[i].pc = "reply" =>
                    /\ run[i].op \in {"update", "reset"}
                    /\ serial[c] => store[c] = run[i].st
        /\ last[c].fail = "send" /\ last[c].op # "none" =>
              /\ last[c].result = "Err"
              /\ last[c].sent = NoReply
              /\ serial[c] /\ Idle(c) => store[c] = last[c].st
        /\ last[c].sent.pre \in ChangeReplies =>
              /\ last[c].result = "Ok"
              /\ last[c].op \in {"update", "reset"}
              /\ serial[c] /\ Idle(c) => store[c] = last[c].st

\* the reply to /add fails after AddNumber was written
C14_Witness ==
    \E c \in Chats :
        /\ last[c].fail = "send" /\ last[c].op = "update" /\ last[c].text = TAdd3
        /\ serial[c] /\ Idle(c) /\ store[c] = AddNumber(8)

\* the only event of chat c in flight is run[j], which has written its
\* update, and the event of c that ended last wrote an update from the same
\* read state
ReadSameValue(c, j) ==
    /\ run[j].chat = c /\ run[j].pc = "reply" /\ run[j].op = "update"
    /\ \A i \in 1..Len(run) : run[i].chat = c => i = j
    /\ last[c].loaded /\ last[c].op = "update"
    /\ last[c].snap = run[j].snap /\ run[j].snap.tag \in PayloadTags

\* C15: events of one chat are not mutually excluded: a handler writes the
\* state computed from the value it read, whatever was written since, so of
\* two /add or /sub events that read the same value N the stored value
\* reflects only one: it is never the result of applying both.
C15_LostUpdate ==
    /\ [](\A c \in Chats : \A j \in 1..Len(run) : ReadSameValue(c, j) =>
              LET a == last[c]
                  b == run[j]
                  ownA == Outcome(a.snap, a.text, overflowChecks).after
                  ownB == Outcome(b.snap, b.text, overflowChecks).after
              IN  /\ a.st = ownA /\ b.st = ownB
                  /\ store[c] \in {a.st, b.st} =>
                        store[c] \notin
                            {Outcome(ownA, b.text, overflowChecks).after,
                             Outcome(ownB, a.text, overflowChecks).after})
    /\ [][\A j \in 1..Len(run) :
              /\ Len(run') = Len(run)
              /\ run[j].pc = "handler" /\ run'[j].pc = "reply"
              => store'[run[j].chat] =
                    Outcome(run[j].snap, run[j].text, overflowChecks).after]_vars

\* /add 3 and /sub 10 both read GotNumber(5); the /sub wrote last
C15_Witness ==
    \E j \in 1..Len(run) :
        /\ ReadSameValue(1, j)
        /\ last[1].text = TAdd3 /\ run[j].text = TSub10
        /\ last[1].snap = GotNumber(5) /\ last[1].result = "Ok"
        /\ store[1] = SubNumber(-5)

\* C16: handling an event of one chat reads and writes that chat's entry
\* only: a step changes the entry of at most one chat, one whose handler is
\* at its store write; the state read at delivery is the chat's own; and
\* under any interleaving with other chats a chat handled one event at a
\* time ends in the state its own events give in order.
C16_OtherChatsUntouched ==
    /\ [](\A b \in Chats : serial[b] /\ Idle(b) /\ clean[b] => store[b] = seq[b])
    /\ [][\A b \in Chats : store'[b] # store[b] =>
              /\ \E i \in 1..Len(run) : run[i].chat = b /\ run[i].pc = "handler"
              /\ \A a \in Chats \ {b} : store'[a] = store[a]]_vars
    /\ [][Len(run') > Len(run) =>
              run'[Len(run')].snap = GetOrDefault(store[run'[Len(run')].chat])]_vars

\* chat 2 was given a number and /add while an event of chat 1 is between
\* its store write and its reply
C16_Witness ==
    \E i \in 1..Len(run) :
        /\ run[i].chat = 1 /\ run[i].pc = "reply" /\ store[1] = GotNumber(MaxI32)
        /\ serial[1] /\ serial[2] /\ Idle(2) /\ clean[2]
        /\ last[2].text = TAdd3 /\ last[2].result = "Ok"
        /\ store[2] = AddNumber(8)

\* what handling the query q gives when no call fails
ClickOutcome(q) ==
    [acks |-> 1,
     edits |-> IF q.data.some /\ q.message.some THEN <<ExpectedEdit(q)>> ELSE <<>>,
     logs |-> IF q.data.some /\ ~q.message.some THEN <<q.data.label>> ELSE <<>>]

\* C17: clicks are handled without dialogue state: a step of a click's
\* handling leaves the store and the message events as they are, and what
\* a handled click gives (acknowledgement, edit, log line) depends on the
\* query alone, so repeated and concurrent clicks are each acknowledged and
\* answered.
C17_ClicksStateless ==
    /\ [](/\ lastClick.result = "Ok" =>
                /\ lastClick.acks = ClickOutcome(lastClick).acks
                /\ lastClick.edits = ClickOutcome(lastClick).edits
                /\ lastClick.logs = ClickOutcome(lastClick).logs
          /\ \A i \in 1..Len(clicks) : clicks[i].pc = "edit" =>
                clicks[i].acks = 1 /\ clicks[i].edits = <<>>)
    /\ [][clicks' # clicks \/ lastClick' # lastClick =>
              UNCHANGED <<store, run, last, seq, total>>]_vars

\* the same click twice while chat 1 holds a number: one answered, the
\* other acknowledged and about to be
C17_Witness ==
    /\ Len(clicks) = 1 /\ clicks[1].pc = "edit" /\ clicks[1].acks = 1
    /\ lastClick.result = "Ok" /\ Len(lastClick.edits) = 1
    /\ lastClick.from = clicks[1].from /\ lastClick.data = clicks[1].data
    /\ lastClick.message = clicks[1].message
    /\ store[1] = GotNumber(5)

\* C18: the three variants that carry a number are handled alike: the
\* reply and the state written for a text handled on value N are those of
\* the same text handled on GotNumber(N), on AddNumber(N) and on
\* SubNumber(N).
C18_VariantIrrelevant ==
    \A c \in Chats :
        HandledWithNumber(c) /\ last[c].fail = "none" =>
            \A v \in {GotNumber(last[c].snap.num), AddNumber(last[c].snap.num),
                      SubNumber(last[c].snap.num)} :
                LET o == Outcome(v, last[c].text, overflowChecks)
                IN  /\ last[c].sent = o.sent
                    /\ last[c].op = o.op
                    /\ last[c].op = "update" => last[c].st = o.after

C18_Witness ==
    \E c \in Chats :
        /\ HandledWithNumber(c) /\ clean[c] /\ last[c].snap = SubNumber(-5)
        /\ last[c].text = TAdd3 /\ last[c].result = "Ok"

\* C19: no event sequence stores BattlePlayer: every stored state is
\* absent (Start) or one of GotNumber, AddNumber, SubNumber, and every
\* message is dispatched on one of these four.
C19_NoBattlePlayer ==
    \A c \in Chats :
        /\ store[c].tag \in {"NoEntry"} \cup PayloadTags
        /\ GetOrDefault(store[c]).tag \in {"Start"} \cup PayloadTags
        /\ \A i \in 1..Len(run) :
              run[i].snap.tag \in {"Start"} \cup PayloadTags
        /\ last[c].loaded => last[c].snap.tag \in {"Start"} \cup PayloadTags
        /\ last[c].result # "Panic" \/ overflowChecks

\* /battle answered and one of its buttons clicked
C19_Witness ==
    /\ last[1].text = CmdBattle /\ last[1].result = "Ok" /\ Idle(1)
    /\ lastClick.result = "Ok" /\ lastClick.data.some /\ lastClick.message.some
    /\ store[1] = GotNumber(5)

\* C20: in the click handler the acknowledgement comes first: nothing is
\* edited or logged before it, nothing at all after it fails, and a click
\* without payload is acknowledged and gives neither an edit nor a log
\* line, with or without a resolvable message.
C20_AckFirst ==
    \A q \in {lastClick} \cup {clicks[i] : i \in 1..Len(clicks)} :
        /\ q.pc = "answer" => q.acks = 0 /\ q.edits = <<>> /\ q.logs = <<>>
        /\ q.pc = "edit" \/ q.edits # <<>> \/ q.logs # <<>> => q.acks = 1
        /\ q.acks = 0 => q.edits = <<>> /\ q.logs = <<>>
        /\ q.pc \notin {"none", "answer"} /\ ~q.data.some =>
              /\ q.pc = "done" /\ q.edits = <<>> /\ q.logs = <<>>
              /\ q.result = "Ok" => q.acks = 1

\* a click without payload on a resolvable message, acknowledged
C20_Witness ==
    /\ lastClick.result = "Ok" /\ ~lastClick.data.some /\ lastClick.message.some
    /\ lastClick.acks = 1 /\ lastClick.from.last = NoName

====
